---- MODULE Spec2Model ----
(***************************************************************************)
(* Session lifecycle engine of broadcast-box (package internal/room):      *)
(* the room registry, rooms, sessions, users, publisher streams and the    *)
(* per-session event channels, with the locks the code takes.              *)
(*                                                                         *)
(* Every exported operation is a sequence of steps of one thread; a step   *)
(* ends where the code can block (a lock acquisition, a channel send).     *)
(* The critical sections of a stream's lock never block on another lock or *)
(* channel, so a stream critical section is part of the step that enters   *)
(* it.                                                                     *)
(***************************************************************************)
EXTENDS Integers, Sequences, FiniteSets, TLC

\* ---------------------------------------------------------------- bounds
NumThreads == 2      \* concurrent goroutines running operations
MaxCalls == 3        \* calls that reach a lock, over a whole behaviour
MaxJoins == 2        \* sessions ever created
MaxWhips == 2        \* ingress peer connections ever created
MaxWheps == 1        \* viewer peer connections ever created
MaxViewers == 2      \* the same, in the behaviours with repeated WHEP calls
MaxWatchCalls == 3   \* calls of those behaviours, WHEP not counted
MaxLeaveCalls == 4   \* calls of the behaviours of sessions that join, stream and leave
MaxSlowCalls == 32   \* calls of the behaviours whose consumers do not drain
MaxPackets == 3      \* packets read by the videoWriters of a stream
MaxLayerPackets == 2 \* the same, in the behaviours with layer changes
MaxLayerCalls == 3   \* calls in those behaviours, the two before them included
MaxPlis == 2         \* keyframe requests waiting in a stream's channel
MaxStopPackets == 2  \* packets read in the behaviours that end a stream
MaxStopCalls == 3    \* calls in those behaviours, the two before them included

\* ----------------------------------------------------- program constants
MaxAuthTokenLen == 1024   \* room.go:33
EventsCap == 32           \* room.go:59
WhepStartTimestamp == 50000   \* whep.go: timestamp of a new whepSession
PliCap == 50              \* room.go:244

Threads == 1..NumThreads
RoomIds == {"r1"}
\* uuid.New() never repeats: the k-th session created is session k, and a user
\* or a room created with it is user k or room k; the k-th ingress peer
\* connection belongs to stream k, the k-th viewer one to whepSession k.
SessionIds == 1..MaxJoins
UserIds == 1..MaxJoins
RoomObjs == 1..MaxJoins
StreamIds == 1..MaxWhips
WhepIds == 1..MaxViewers

\* An auth token is a string; the code looks only at its length and compares
\* it for equality, so a token is modelled by a name and its length.
NoToken == [name |-> "", len |-> -1]
AuthTokens ==
  { [name |-> "a", len |-> 1], [name |-> "b", len |-> 1023],
    [name |-> "empty", len |-> 0], [name |-> "k", len |-> 1024] }

VARIABLES
  \* registry (room.go:14-17)
  roomMap, roomMapLock, roomIdOf,
  \* Room (room.go:23-28)
  roomLock, sessions,
  \* Session (room.go:201-205) and its handler in main.go
  sessUser, sessRoom, sessState, events, closed,
  \* User (room.go:210-217)
  userToken, stream,
  \* userStream (room.go:228-236) and its ingress peer connection
  viewers, inPc, inCb, inUser, inRoom,
  \* whepSession (whep.go:16-22) and its viewer peer connection
  vPc, vCb, vStream, vSess,
  \* threads
  pc, loc, ret,
  \* the number of calls made (the bound of the model)
  calls,
  \* observation: teardowns per stream, first event sent and received
  stopCount, firstSent, firstRecv,
  \* whepSession fields (whep.go:16-22) and what was written to its track
  whep, written,
  \* the videoWriter goroutines of a stream, one per layer (whip.go:29-94),
  \* and the number of packets they have read
  fwd, pkts,
  \* userStream.pliChan (room.go:228-236): the keyframe requests waiting in it
  pliChan,
  \* the goroutines besides the videoWriters: the PLI forwarder each
  \* videoWriter starts (whip.go:39-49) and the RTCP reader of each viewer
  \* (whep.go:110-126), each "off", "run" or "exited"
  workers

regVars == <<roomMap, roomMapLock, roomIdOf>>
roomVars == <<roomLock, sessions>>
sessVars == <<sessUser, sessRoom>>
chanVars == <<events, closed, firstSent>>
strmVars == <<stream, viewers, inPc, inCb, vPc, vCb, stopCount>>
cbVars == <<inUser, inRoom, vStream, vSess>>
fwdVars == <<whep, written, fwd, pkts, pliChan, workers>>
vars == <<regVars, roomVars, sessVars, sessState, chanVars, userToken, strmVars,
          cbVars, pc, loc, ret, calls, firstRecv, fwdVars>>

\* ---------------------------------------------------------------- events
NoEvent == [type |-> "none", sessionId |-> 0, users |-> {}]

\* SessionEvent{SessionId: session.Id.String()}
SessionEvent(s) == [type |-> "session", sessionId |-> s, users |-> {}]

\* usersFromSessions: the users the sessions of a room refer to
usersFromSessions(ss, su) == { su[s] : s \in ss }

\* newUpdateUsersEvent: one UserMeta per user, Streaming = slot is not nil
newUpdateUsersEventIdle(ss, su, slot) ==
  [type |-> "users", sessionId |-> 0,
   users |-> { [id |-> u, streaming |-> FALSE] : u \in usersFromSessions(ss, su) }]
newUpdateUsersEvent(ss, su, slot) ==
  [type |-> "users", sessionId |-> 0,
   users |-> { [id |-> u, streaming |-> slot[u] # 0] : u \in usersFromSessions(ss, su) }]

\* ------------------------------------------------------------- helpers
\* Join's token check: len(authToken) == 0 || len(authToken) >= 1024
InvalidAuthTokenOffByOne(tok) == tok.len = 0 \/ tok.len > MaxAuthTokenLen
InvalidAuthToken(tok) == tok.len = 0 \/ tok.len >= MaxAuthTokenLen

\* the tokens a client can have joined with
StreamKeys == { tok \in AuthTokens : ~InvalidAuthToken(tok) }

NoLoc == [rid |-> "", tok |-> NoToken, room |-> 0, sess |-> 0, user |-> 0,
          strm |-> 0, whep |-> 0, pend |-> {}, cur |-> 0, ev |-> NoEvent,
          next |-> "", rooms |-> {}, layer |-> ""]
NoRet == [op |-> "", err |-> "", tok |-> NoToken]

\* the kinds of lock thread t holds
Held(t) ==
  (IF roomMapLock = t THEN {"registry"} ELSE {})
    \cup (IF \E r \in RoomObjs : roomLock[r] = t THEN {"room"} ELSE {})

Min(S) == CHOOSE x \in S : \A y \in S : x <= y
At(label) == { t \in Threads : pc[t] = label }

\* identifiers not yet given to an object
FreeSessions == { s \in SessionIds : sessState[s] = "none" }
FreeStreams == { st \in StreamIds : inPc[st] = "none" }
FreeWheps == { w \in WhepIds : vPc[w] = "none" }

\* a call is made: it counts against the bound of the model
Call(max) == calls < max /\ calls' = calls + 1

\* room.user(userId): whether some session of the room belongs to the user
RoomHasUser(ss, su, u) == \E s \in ss : su[s] = u

\* room.sessionByAuth(authToken): the sessions whose user carries the token
sessionByAuthNone(r, tok) == {}
sessionByAuth(r, tok) == { s \in sessions[r] : userToken[sessUser[s]] = tok }

\* findUserByAuth(authToken): the (room, user) pairs of the registry whose
\* user carries the token; the caller gets any one of them, or (nil, nil)
findUserByAuth(tok) ==
  { <<r, u>> \in RoomObjs \X UserIds :
      /\ \E rid \in RoomIds : roomMap[rid] = r
      /\ \E s \in sessions[r] : sessUser[s] = u
      /\ userToken[u] = tok }

\* FindSession(sessionId): the rooms of the registry that hold the session
FindSession(s) == { roomMap[rid] : rid \in { x \in RoomIds : roomMap[x] # 0 /\ s \in sessions[roomMap[x]] } }

\* where a broadcast to the sessions pend goes next
BcastPc(pend, next) == IF pend = {} THEN next ELSE "bcast"

\* a thread returns: its result is in ret until the caller has read it
Return(t, op, err, tok) ==
  /\ pc' = [pc EXCEPT ![t] = "done"]
  /\ ret' = [ret EXCEPT ![t] = [op |-> op, err |-> err, tok |-> tok]]
  /\ loc' = [loc EXCEPT ![t] = NoLoc]

\* ------------------------------------------------- forwarding, data
\* the simulcast layers of a publisher: the RIDs of its video tracks
Layers == {"h", "l"}
NoLayer == ""

\* sequenceNumber is a uint16: arithmetic modulo 2^16
SeqMod == 65536

\* timestamp, timeDiff and lastTimestamp are uint32: a value is kept as its
\* two 16-bit halves, with addition and subtraction modulo 2^32
U32(n) == [hi |-> (n \div SeqMod) % SeqMod, lo |-> n % SeqMod]
Zero32 == U32(0)
MaxU32 == [hi |-> SeqMod - 1, lo |-> SeqMod - 1]
Add32(a, b) ==
  LET lo == a.lo + b.lo
  IN [hi |-> (a.hi + b.hi + (lo \div SeqMod)) % SeqMod, lo |-> lo % SeqMod]
Sub32(a, b) ==
  LET borrow == IF a.lo < b.lo THEN 1 ELSE 0
  IN [hi |-> (a.hi - b.hi - borrow + SeqMod) % SeqMod,
      lo |-> (a.lo - b.lo + SeqMod) % SeqMod]

\* &whepSession{timestamp: 50000, ...}, currentLayer.Store(""): the zero
\* sequence number, the start timestamp and no layer
NewWhepSession == [layer |-> NoLayer, seq |-> 0, ts |-> U32(WhepStartTimestamp)]

\* a videoWriter that has not been started (no track of that layer yet); n
\* counts the packets it has read from its track
FwdOff == [pc |-> "off", last |-> Zero32, ts |-> Zero32, diff |-> Zero32, todo |-> {},
           cur |-> 0, seq |-> 0, tmp |-> Zero32, n |-> 0]
\* a videoWriter before its first Read: lastTimestamp := uint32(0)
FwdStarted == [FwdOff EXCEPT !.pc = "read"]

\* no videoWriter and no WHEP has started a goroutine
NoWorkers == [pli |-> [f \in Layers |-> "off"], rtcp |-> [w \in WhepIds |-> "off"]]

\* ------------------------------------------------------------------ Init
Init ==
  /\ roomMap = [rid \in RoomIds |-> 0]
  /\ roomMapLock = 0
  /\ roomIdOf = [r \in RoomObjs |-> ""]
  /\ roomLock = [r \in RoomObjs |-> 0]
  /\ sessions = [r \in RoomObjs |-> {}]
  /\ sessUser = [s \in SessionIds |-> 0]
  /\ sessRoom = [s \in SessionIds |-> 0]
  /\ sessState = [s \in SessionIds |-> "none"]
  /\ events = [s \in SessionIds |-> <<>>]
  /\ closed = [s \in SessionIds |-> 0]
  /\ userToken = [u \in UserIds |-> NoToken]
  /\ stream = [u \in UserIds |-> 0]
  /\ viewers = [st \in StreamIds |-> [s \in SessionIds |-> 0]]
  /\ inPc = [st \in StreamIds |-> "none"]
  /\ inCb = [st \in StreamIds |-> FALSE]
  /\ inUser = [st \in StreamIds |-> 0]
  /\ inRoom = [st \in StreamIds |-> 0]
  /\ vPc = [w \in WhepIds |-> "none"]
  /\ vCb = [w \in WhepIds |-> FALSE]
  /\ vStream = [w \in WhepIds |-> 0]
  /\ vSess = [w \in WhepIds |-> 0]
  /\ pc = [t \in Threads |-> "idle"]
  /\ loc = [t \in Threads |-> NoLoc]
  /\ ret = [t \in Threads |-> NoRet]
  /\ calls = 0
  /\ stopCount = [st \in StreamIds |-> 0]
  /\ firstSent = [s \in SessionIds |-> NoEvent]
  /\ firstRecv = [s \in SessionIds |-> NoEvent]
  /\ whep = [w \in WhepIds |-> NewWhepSession]
  /\ written = [w \in WhepIds |-> <<>>]
  /\ fwd = [f \in Layers |-> FwdOff]
  /\ pkts = 0
  /\ pliChan = [st \in StreamIds |-> 0]
  /\ workers = NoWorkers

\* the caller takes the result of a returned call
Done(t) ==
  /\ UNCHANGED fwdVars
  /\ pc[t] = "done"
  /\ pc' = [pc EXCEPT ![t] = "idle"]
  /\ ret' = [ret EXCEPT ![t] = NoRet]
  /\ UNCHANGED <<regVars, roomVars, sessVars, sessState, chanVars, userToken, strmVars,
                 cbVars, loc, calls, firstRecv>>

\* ----------------------------------------------------- the event channel
\* room.broadcast: one blocking send (session.Events <- event) per session of
\* the room, in map order.  A thread that meets a full channel waits on that
\* channel (loc.cur) until the consumer has taken an event.
BcastSend(t) ==
  /\ UNCHANGED fwdVars
  /\ pc[t] = "bcast"
  /\ \E s \in loc[t].pend :
       /\ loc[t].cur \in {0, s}
       /\ IF Len(events[s]) < EventsCap
          THEN /\ events' = [events EXCEPT ![s] = Append(@, loc[t].ev)]
               /\ firstSent' = [firstSent EXCEPT ![s] =
                                  IF @ = NoEvent THEN loc[t].ev ELSE @]
               /\ loc' = [loc EXCEPT ![t].pend = @ \ {s}, ![t].cur = 0]
               /\ pc' = [pc EXCEPT ![t] = BcastPc(loc[t].pend \ {s}, loc[t].next)]
          ELSE /\ loc[t].cur = 0
               /\ loc' = [loc EXCEPT ![t].cur = s]
               /\ UNCHANGED <<events, firstSent, pc>>
  /\ UNCHANGED <<regVars, roomVars, sessVars, sessState, closed, userToken, strmVars,
                 cbVars, ret, calls, firstRecv>>

\* the handler's loop in main.go: event, ok := <-session.Events
Receive(s) ==
  /\ UNCHANGED fwdVars
  /\ sessState[s] = "active"
  /\ events[s] # <<>>
  /\ events' = [events EXCEPT ![s] = Tail(@)]
  /\ firstRecv' = [firstRecv EXCEPT ![s] = IF @ = NoEvent THEN Head(events[s]) ELSE @]
  /\ UNCHANGED <<regVars, roomVars, sessVars, sessState, closed, firstSent, userToken,
                 strmVars, cbVars, pc, loc, ret, calls>>

\* ------------------------------------------------------------------ Join
\* the events Join sends to the new session right after inserting it (line 63)
JoinNoSessionEvent(s) == <<>>
JoinFirstEvents(s) == <<SessionEvent(s)>>

\* Join, lines 32-35: the token check, before any lock
JoinCall(t, max) ==
  /\ UNCHANGED fwdVars
  /\ pc[t] = "idle"
  /\ \E rid \in RoomIds, tok \in AuthTokens :
       IF InvalidAuthToken(tok)
       THEN /\ Return(t, "Join", "ErrInvalidAuthToken", tok)
            /\ UNCHANGED calls
       ELSE /\ Call(max)
            /\ Cardinality(FreeSessions) > Cardinality(At("Join_lockRegistry"))
            /\ pc' = [pc EXCEPT ![t] = "Join_lockRegistry"]
            /\ loc' = [loc EXCEPT ![t] = [NoLoc EXCEPT !.rid = rid, !.tok = tok]]
            /\ UNCHANGED ret
  /\ UNCHANGED <<regVars, roomVars, sessVars, sessState, chanVars, userToken, strmVars,
                 cbVars, firstRecv>>

\* Join, lines 37-44: roomMapLock.Lock(), look the room up or create it
JoinLockRegistry(t) ==
  /\ UNCHANGED fwdVars
  /\ pc[t] = "Join_lockRegistry"
  /\ roomMapLock = 0
  /\ roomMapLock' = t
  /\ LET rid == loc[t].rid
         s == Min(FreeSessions)
         r == IF roomMap[rid] = 0 THEN s ELSE roomMap[rid]
     IN /\ roomMap' = [roomMap EXCEPT ![rid] = r]
        /\ roomIdOf' = [roomIdOf EXCEPT ![r] = rid]
        /\ sessState' = [sessState EXCEPT ![s] = "joining"]
        /\ loc' = [loc EXCEPT ![t].room = r, ![t].sess = s]
  /\ pc' = [pc EXCEPT ![t] = "Join_lockRoom"]
  /\ UNCHANGED <<roomVars, sessVars, chanVars, userToken, strmVars, cbVars, ret, calls,
                 firstRecv>>

\* Join, lines 64-68: the sessions broadcastUsers is called for
JoinBroadcastAlways(createdUser, ss) == ss
JoinBroadcastTo(createdUser, ss) == IF createdUser THEN ss ELSE {}

\* Join, lines 45-68: room.lock.Lock(), find or create the user, insert the
\* session, send SessionEvent, then broadcastUsers or one UsersUpdated
JoinLockRoom(t) ==
  /\ UNCHANGED fwdVars
  /\ pc[t] = "Join_lockRoom"
  /\ roomLock[loc[t].room] = 0
  /\ roomLock' = [roomLock EXCEPT ![loc[t].room] = t]
  /\ LET r == loc[t].room
         s == loc[t].sess
         found == sessionByAuth(r, loc[t].tok)
     IN \E f \in (IF found = {} THEN {0} ELSE found) :
          LET createdUser == f = 0
              u == IF createdUser THEN s ELSE sessUser[f]
              su == [sessUser EXCEPT ![s] = u]
              ss == sessions[r] \cup {s}
              ev == newUpdateUsersEvent(ss, su, stream)
              first == JoinFirstEvents(s)
              q == IF createdUser THEN first ELSE Append(first, ev)
          IN /\ userToken' = [userToken EXCEPT ![u] = loc[t].tok]
             /\ sessUser' = su
             /\ sessRoom' = [sessRoom EXCEPT ![s] = r]
             /\ sessions' = [sessions EXCEPT ![r] = ss]
             /\ events' = [events EXCEPT ![s] = q]
             /\ firstSent' = [firstSent EXCEPT ![s] = IF q = <<>> THEN NoEvent ELSE q[1]]
             /\ loc' = [loc EXCEPT ![t].user = u, ![t].ev = ev,
                                   ![t].pend = JoinBroadcastTo(createdUser, ss),
                                   ![t].next = "Join_ret"]
             /\ pc' = [pc EXCEPT ![t] = BcastPc(JoinBroadcastTo(createdUser, ss), "Join_ret")]
  /\ UNCHANGED <<regVars, sessState, closed, strmVars, cbVars, ret, calls, firstRecv>>

\* Join, line 69 and the deferred unlocks; the handler now owns the session
JoinRet(t) ==
  /\ UNCHANGED fwdVars
  /\ pc[t] = "Join_ret"
  /\ roomLock' = [roomLock EXCEPT ![loc[t].room] = 0]
  /\ roomMapLock' = 0
  /\ sessState' = [sessState EXCEPT ![loc[t].sess] = "active"]
  /\ Return(t, "Join", "nil", loc[t].tok)
  /\ UNCHANGED <<roomMap, roomIdOf, sessions, sessVars, chanVars, userToken,
                 strmVars, cbVars, calls, firstRecv>>

\* ------------------------------------------------- streams and viewers
\* The part of the state the stream operations change, as one record, so that
\* kickFromStreams and stopStream compose inside one critical section.
CurX == [stream |-> stream, viewers |-> viewers, inPc |-> inPc, inCb |-> inCb,
         vPc |-> vPc, vCb |-> vCb, stopCount |-> stopCount]

SetX(X) ==
  /\ stream' = X.stream
  /\ viewers' = X.viewers
  /\ inPc' = X.inPc
  /\ inCb' = X.inCb
  /\ vPc' = X.vPc
  /\ vCb' = X.vCb
  /\ stopCount' = X.stopCount

\* peerConn.Close() on the viewer peer connections W: an open connection
\* becomes closed and its ICE callback will see the Closed state
CloseViewersSkipped(X, W) == X
CloseViewers(X, W) ==
  [X EXCEPT !.vPc = [w \in WhepIds |-> IF w \in W THEN "closed" ELSE X.vPc[w]],
            !.vCb = [w \in WhepIds |-> IF w \in W /\ X.vPc[w] = "open"
                                        THEN TRUE ELSE X.vCb[w]]]

\* the streams in the slots of the users of the sessions ss
StreamsOf(X, ss) == { X.stream[sessUser[s]] : s \in ss } \ {0}

\* room.kickFromStreams(session), lines 120-132: in every stream of the room,
\* close the whepSession keyed by the session and delete it
kickFromStreams(X, ss, s) ==
  LET sts == StreamsOf(X, ss)
      W == { X.viewers[st][s] : st \in sts } \ {0}
  IN [CloseViewers(X, W) EXCEPT
        !.viewers = [st \in StreamIds |->
                       IF st \in sts THEN [X.viewers[st] EXCEPT ![s] = 0]
                       ELSE X.viewers[st]]]

\* userStream.stop(), lines 275-284: close the ingress peer connection, close
\* and delete every viewer
stopViewersKept(X, st) ==
  [X EXCEPT !.inPc[st] = "closed",
            !.inCb[st] = (X.inPc[st] = "open" /\ inUser[st] # 0) \/ X.inCb[st],
            !.stopCount[st] = IF @ < 2 THEN @ + 1 ELSE @]
stop(X, st) ==
  LET W == { X.viewers[st][s] : s \in SessionIds } \ {0}
      Y == CloseViewers(X, W)
  IN [Y EXCEPT !.inPc[st] = "closed",
               !.inCb[st] = (X.inPc[st] = "open" /\ inUser[st] # 0) \/ X.inCb[st],
               !.viewers[st] = [s \in SessionIds |-> 0],
               !.stopCount[st] = IF @ < 2 THEN @ + 1 ELSE @]

\* userStream.removeViewer(viewer), lines 265-273: close the whepSession the
\* map holds under the viewer's session id, if any, and delete the entry
removeViewerKept(X, st, vs) == X
removeViewer(X, st, vs) ==
  LET cur == X.viewers[st][vs]
  IN IF cur = 0 THEN X
     ELSE [CloseViewers(X, {cur}) EXCEPT !.viewers[st][vs] = 0]

\* what user.stream.Swap((*userStream)(nil)) leaves in the slot
SlotKeptOnStop(old) == old
SlotAfterSwap(old) == 0

\* room.stopStream(user), lines 149-152 (the broadcast follows in the caller)
stopStream(X, u) ==
  LET old == X.stream[u]
      Y == [X EXCEPT !.stream[u] = SlotAfterSwap(old)]
  IN IF old # 0 THEN stop(Y, old) ELSE Y

\* user.stream.CompareAndSwap(nil, stream) succeeds on an empty slot
SwapsAlways(cur) == TRUE
CompareAndSwapNil(cur) == cur = 0

\* --------------------------------------------------------- RemoveSession
\* RemoveSession, line 99: room.user(session.User.Id) finds no session of the
\* user among the sessions left
UserGoneAlways(ss, u) == TRUE
UserGone(ss, u) == ~RoomHasUser(ss, sessUser, u)

\* main.go: the handler leaves its loop and calls room.RemoveSession(session),
\* once per session
RmCall(t, max) ==
  /\ UNCHANGED fwdVars
  /\ pc[t] = "idle"
  /\ Call(max)
  /\ \E s \in SessionIds :
       /\ sessState[s] = "active"
       /\ sessState' = [sessState EXCEPT ![s] = "leaving"]
       /\ loc' = [loc EXCEPT ![t] = [NoLoc EXCEPT !.sess = s, !.room = sessRoom[s],
                                                 !.user = sessUser[s]]]
  /\ pc' = [pc EXCEPT ![t] = "Rm_lockRoom"]
  /\ UNCHANGED <<regVars, roomVars, sessVars, chanVars, userToken, strmVars, cbVars,
                 ret, firstRecv>>

\* RemoveSession, lines 94-106: room.lock.Lock(), kickFromStreams, delete the
\* session; when no session of the user is left, stopStream(user)
RmLockRoom(t) ==
  /\ UNCHANGED fwdVars
  /\ pc[t] = "Rm_lockRoom"
  /\ roomLock[loc[t].room] = 0
  /\ roomLock' = [roomLock EXCEPT ![loc[t].room] = t]
  /\ LET r == loc[t].room
         s == loc[t].sess
         u == loc[t].user
         X1 == kickFromStreams(CurX, sessions[r], s)
         ss == sessions[r] \ {s}
         gone == UserGone(ss, u)
         X2 == IF gone THEN stopStream(X1, u) ELSE X1
     IN /\ sessions' = [sessions EXCEPT ![r] = ss]
        /\ SetX(X2)
        /\ loc' = [loc EXCEPT ![t].pend = IF gone THEN ss ELSE {},
                              ![t].ev = newUpdateUsersEvent(ss, sessUser, X2.stream),
                              ![t].next = "Rm_afterStop"]
        /\ pc' = [pc EXCEPT ![t] = IF gone THEN BcastPc(ss, "Rm_afterStop") ELSE "Rm_ret"]
  /\ UNCHANGED <<regVars, sessVars, sessState, chanVars, userToken, cbVars, ret,
                 calls, firstRecv>>

\* RemoveSession, lines 108-111: broadcastUsers when sessions are left,
\* otherwise go on to remove the room
RmAfterStop(t) ==
  /\ UNCHANGED fwdVars
  /\ pc[t] = "Rm_afterStop"
  /\ LET ss == sessions[loc[t].room]
     IN /\ loc' = [loc EXCEPT ![t].pend = ss, ![t].next = "Rm_ret"]
        /\ pc' = [pc EXCEPT ![t] = IF ss # {} THEN "bcast" ELSE "Rm_lockRegistry"]
  /\ UNCHANGED <<regVars, roomVars, sessVars, sessState, chanVars, userToken, strmVars,
                 cbVars, ret, calls, firstRecv>>

\* the registry after delete(roomMap, room.id)
RoomMapKept(rid) == roomMap
RoomMapDeleted(rid) == [roomMap EXCEPT ![rid] = 0]

\* RemoveSession, lines 112-115: roomMapLock.Lock() while the room lock is
\* held, room.close() (the room has no session left: nothing to close),
\* delete(roomMap, room.id), roomMapLock.Unlock()
RmLockRegistry(t) ==
  /\ UNCHANGED fwdVars
  /\ pc[t] = "Rm_lockRegistry"
  /\ roomMapLock = 0
  /\ roomMap' = RoomMapDeleted(roomIdOf[loc[t].room])
  /\ pc' = [pc EXCEPT ![t] = "Rm_ret"]
  /\ UNCHANGED <<roomMapLock, roomIdOf, roomVars, sessVars, sessState, chanVars,
                 userToken, strmVars, cbVars, loc, ret, calls, firstRecv>>

\* RemoveSession returns: the deferred room.lock.Unlock()
RmRet(t) ==
  /\ UNCHANGED fwdVars
  /\ pc[t] = "Rm_ret"
  /\ roomLock' = [roomLock EXCEPT ![loc[t].room] = 0]
  /\ sessState' = [sessState EXCEPT ![loc[t].sess] = "removed"]
  /\ Return(t, "RemoveSession", "nil", NoToken)
  /\ UNCHANGED <<regVars, sessions, sessVars, chanVars, userToken, strmVars, cbVars,
                 calls, firstRecv>>

\* a call that found nothing to work on returns without having had an effect
ReturnNoEffect(t, op, err, tok) ==
  /\ Return(t, op, err, tok)
  /\ calls' = calls - 1

\* ------------------------------------------------------------------ WHIP
\* main.go whipHandler: POST /api/whip with a stream key
WhipCall(t, max) ==
  /\ UNCHANGED fwdVars
  /\ pc[t] = "idle"
  /\ Call(max)
  /\ Cardinality(FreeStreams) > Cardinality(At("WHIP_lockRegistry"))
  /\ \E tok \in StreamKeys : loc' = [loc EXCEPT ![t] = [NoLoc EXCEPT !.tok = tok]]
  /\ pc' = [pc EXCEPT ![t] = "WHIP_lockRegistry"]
  /\ UNCHANGED <<regVars, roomVars, sessVars, sessState, chanVars, userToken, strmVars,
                 cbVars, ret, firstRecv>>

\* WHIP, whip.go lines 110-119: roomMapLock.Lock(), findUserByAuth, create
\* the peer connection
WhipLockRegistry(t) ==
  /\ UNCHANGED fwdVars
  /\ pc[t] = "WHIP_lockRegistry"
  /\ roomMapLock = 0
  /\ LET found == findUserByAuth(loc[t].tok)
         st == Min(FreeStreams)
     IN IF found = {}
        THEN /\ ReturnNoEffect(t, "WHIP", "not connected to any room", loc[t].tok)
             /\ UNCHANGED <<roomMapLock, inPc>>
        ELSE /\ roomMapLock' = t
             /\ \E ru \in found :
                  loc' = [loc EXCEPT ![t].room = ru[1], ![t].user = ru[2], ![t].strm = st]
             /\ inPc' = [inPc EXCEPT ![st] = "open"]
             /\ pc' = [pc EXCEPT ![t] = "WHIP_lockRoom"]
             /\ UNCHANGED <<ret, calls>>
  /\ UNCHANGED <<roomMap, roomIdOf, roomVars, sessVars, sessState, chanVars, userToken,
                 stream, viewers, inCb, vPc, vCb, stopCount, cbVars, firstRecv>>

\* Room.startStream, room.go lines 134-146, called from WHIP line 120:
\* room.lock.Lock(), CompareAndSwap(nil, stream), broadcastUsers; when the
\* swap fails startStream and WHIP return and their deferred unlocks run
WhipLockRoom(t) ==
  /\ UNCHANGED fwdVars
  /\ pc[t] = "WHIP_lockRoom"
  /\ roomLock[loc[t].room] = 0
  /\ LET r == loc[t].room
         u == loc[t].user
         slot == [stream EXCEPT ![u] = loc[t].strm]
     IN IF CompareAndSwapNil(stream[u])
        THEN /\ stream' = slot
             /\ roomLock' = [roomLock EXCEPT ![r] = t]
             /\ loc' = [loc EXCEPT ![t].pend = sessions[r],
                                   ![t].ev = newUpdateUsersEvent(sessions[r], sessUser, slot),
                                   ![t].next = "WHIP_started"]
             /\ pc' = [pc EXCEPT ![t] = BcastPc(sessions[r], "WHIP_started")]
             /\ UNCHANGED <<ret, roomMapLock>>
        ELSE /\ Return(t, "WHIP", "already streaming", loc[t].tok)
             /\ roomMapLock' = 0
             /\ UNCHANGED <<stream, roomLock>>
  /\ UNCHANGED <<roomMap, roomIdOf, sessions, sessVars, sessState, chanVars, userToken,
                 viewers, inPc, inCb, vPc, vCb, stopCount, cbVars, calls, firstRecv>>

\* startStream returns (room.lock.Unlock()); WHIP lines 126-154 register the
\* OnTrack and OnICEConnectionStateChange callbacks on the peer connection
WhipStarted(t) ==
  /\ UNCHANGED fwdVars
  /\ pc[t] = "WHIP_started"
  /\ roomLock' = [roomLock EXCEPT ![loc[t].room] = 0]
  /\ inUser' = [inUser EXCEPT ![loc[t].strm] = loc[t].user]
  /\ inRoom' = [inRoom EXCEPT ![loc[t].strm] = loc[t].room]
  /\ pc' = [pc EXCEPT ![t] = "WHIP_negotiate"]
  /\ UNCHANGED <<regVars, sessions, sessVars, sessState, chanVars, userToken, strmVars,
                 vStream, vSess, loc, ret, calls, firstRecv>>

\* WHIP lines 156-172: the SDP exchange; it fails on a closed peer connection
\* and may fail on the offer.  WHIP returns, roomMapLock.Unlock() runs.
WhipNegotiate(t) ==
  /\ UNCHANGED fwdVars
  /\ pc[t] = "WHIP_negotiate"
  /\ roomMapLock' = 0
  /\ \E ok \in {inPc[loc[t].strm] = "open", FALSE} :
       Return(t, "WHIP", IF ok THEN "nil" ELSE "negotiation failed", loc[t].tok)
  /\ UNCHANGED <<roomMap, roomIdOf, roomVars, sessVars, sessState, chanVars, userToken,
                 strmVars, cbVars, calls, firstRecv>>

\* ------------------------------------------------------------ FinishWHIP
\* main.go whipHandler: DELETE /api/whip with a stream key
FinCall(t, max) ==
  /\ UNCHANGED fwdVars
  /\ pc[t] = "idle"
  /\ Call(max)
  /\ \E tok \in StreamKeys : loc' = [loc EXCEPT ![t] = [NoLoc EXCEPT !.tok = tok]]
  /\ pc' = [pc EXCEPT ![t] = "Fin_lockRegistry"]
  /\ UNCHANGED <<regVars, roomVars, sessVars, sessState, chanVars, userToken, strmVars,
                 cbVars, ret, firstRecv>>

\* FinishWHIP, whip.go lines 97-102
FinLockRegistry(t) ==
  /\ UNCHANGED fwdVars
  /\ pc[t] = "Fin_lockRegistry"
  /\ roomMapLock = 0
  /\ LET found == findUserByAuth(loc[t].tok)
     IN IF found = {}
        THEN /\ ReturnNoEffect(t, "FinishWHIP", "not connected to any room", loc[t].tok)
             /\ UNCHANGED roomMapLock
        ELSE /\ roomMapLock' = t
             /\ \E ru \in found :
                  loc' = [loc EXCEPT ![t].room = ru[1], ![t].user = ru[2]]
             /\ pc' = [pc EXCEPT ![t] = "Fin_lockRoom"]
             /\ UNCHANGED <<ret, calls>>
  /\ UNCHANGED <<roomMap, roomIdOf, roomVars, sessVars, sessState, chanVars, userToken,
                 strmVars, cbVars, firstRecv>>

\* room.lock.Lock() followed by room.stopStream(user): the swap, stop() on the
\* old stream, then broadcastUsers
LockRoomAndStop(t, next) ==
  /\ roomLock[loc[t].room] = 0
  /\ roomLock' = [roomLock EXCEPT ![loc[t].room] = t]
  /\ LET r == loc[t].room
         X == stopStream(CurX, loc[t].user)
     IN /\ SetX(X)
        /\ loc' = [loc EXCEPT ![t].pend = sessions[r],
                              ![t].ev = newUpdateUsersEvent(sessions[r], sessUser, X.stream),
                              ![t].next = next]
        /\ pc' = [pc EXCEPT ![t] = BcastPc(sessions[r], next)]
  /\ UNCHANGED <<regVars, sessions, sessVars, sessState, chanVars, userToken, cbVars,
                 ret, calls, firstRecv>>

\* FinishWHIP, whip.go lines 103-104: room.lock.Lock(), room.stopStream(user)
FinLockRoom(t) ==
  /\ UNCHANGED fwdVars
  /\ pc[t] = "Fin_lockRoom"
  /\ LockRoomAndStop(t, "Fin_ret")

\* FinishWHIP, whip.go lines 105-106: room.lock.Unlock(), return
FinRet(t) ==
  /\ UNCHANGED fwdVars
  /\ pc[t] = "Fin_ret"
  /\ roomLock' = [roomLock EXCEPT ![loc[t].room] = 0]
  /\ roomMapLock' = 0
  /\ Return(t, "FinishWHIP", "nil", loc[t].tok)
  /\ UNCHANGED <<roomMap, roomIdOf, sessions, sessVars, sessState, chanVars, userToken,
                 strmVars, cbVars, calls, firstRecv>>

\* ------------------------------------- ICE callbacks of the ingress side
\* whip.go lines 145-148: the connection fails, the callback closes it
IngressICEFailed(st) ==
  /\ UNCHANGED fwdVars
  /\ inPc[st] = "open"
  /\ inUser[st] # 0
  /\ inPc' = [inPc EXCEPT ![st] = "closed"]
  /\ inCb' = [inCb EXCEPT ![st] = TRUE]
  /\ UNCHANGED <<regVars, roomVars, sessVars, sessState, chanVars, userToken, stream,
                 viewers, vPc, vCb, stopCount, cbVars, pc, loc, ret, calls, firstRecv>>

\* whip.go line 149: the callback runs with state Closed
IceClosedCall(t) ==
  /\ UNCHANGED fwdVars
  /\ pc[t] = "idle"
  /\ \E st \in StreamIds :
       /\ inCb[st]
       /\ inCb' = [inCb EXCEPT ![st] = FALSE]
       /\ loc' = [loc EXCEPT ![t] = [NoLoc EXCEPT !.room = inRoom[st], !.user = inUser[st],
                                                 !.strm = st]]
  /\ pc' = [pc EXCEPT ![t] = "Ice_lockRoom"]
  /\ UNCHANGED <<regVars, roomVars, sessVars, sessState, chanVars, userToken, stream,
                 viewers, inPc, vPc, vCb, stopCount, cbVars, ret, calls, firstRecv>>

\* whip.go lines 150-151: room.lock.Lock(), room.stopStream(user)
IceLockRoom(t) ==
  /\ UNCHANGED fwdVars
  /\ pc[t] = "Ice_lockRoom"
  /\ LockRoomAndStop(t, "Ice_ret")

\* whip.go line 152: room.lock.Unlock()
IceRet(t) ==
  /\ UNCHANGED fwdVars
  /\ pc[t] = "Ice_ret"
  /\ roomLock' = [roomLock EXCEPT ![loc[t].room] = 0]
  /\ Return(t, "ICEClosed", "nil", NoToken)
  /\ UNCHANGED <<regVars, sessions, sessVars, sessState, chanVars, userToken, strmVars,
                 cbVars, calls, firstRecv>>

\* ------------------------------------------------------------------ WHEP
\* main.go whepHandler: POST /api/whep/{streamerUserId} for a viewer session
WhepCall(t, max) ==
  /\ UNCHANGED fwdVars
  /\ pc[t] = "idle"
  /\ Cardinality(WhepIds \ FreeWheps) + Cardinality(At("WHEP_find") \cup At("WHEP_lockRoom")) < max
  /\ \E vs \in { s \in SessionIds : sessUser[s] # 0 },
        u \in { x \in UserIds : userToken[x] # NoToken } :
       loc' = [loc EXCEPT ![t] = [NoLoc EXCEPT !.sess = vs, !.user = u]]
  /\ pc' = [pc EXCEPT ![t] = "WHEP_find"]
  /\ UNCHANGED <<regVars, roomVars, sessVars, sessState, chanVars, userToken, strmVars,
                 cbVars, ret, calls, firstRecv>>

\* WHEP, whep.go lines 66-69: FindSession locks the registry, searches the
\* session maps of all rooms and unlocks
WhepFind(t) ==
  /\ UNCHANGED fwdVars
  /\ pc[t] = "WHEP_find"
  /\ roomMapLock = 0
  /\ LET found == FindSession(loc[t].sess)
     IN IF found = {}
        THEN Return(t, "WHEP", "viewer session not found", NoToken)
        ELSE /\ \E r \in found : loc' = [loc EXCEPT ![t].room = r]
             /\ pc' = [pc EXCEPT ![t] = "WHEP_lockRoom"]
             /\ UNCHANGED ret
  /\ UNCHANGED <<regVars, roomVars, sessVars, sessState, chanVars, userToken, strmVars,
                 cbVars, calls, firstRecv>>

\* WHEP, whep.go lines 71-157, all under the room lock.  The slot of a user
\* always holds a typed nil or a stream, so the test of line 79 never fires:
\* on an empty slot the peer connection is created and line 101 dereferences
\* the nil stream (the handler panics, the deferred unlock runs).
WhepLockRoom(t) ==
  /\ UNCHANGED fwdVars
  /\ pc[t] = "WHEP_lockRoom"
  /\ roomLock[loc[t].room] = 0
  /\ LET r == loc[t].room
         u == loc[t].user
         vs == loc[t].sess
         st == stream[u]
         w == Min(FreeWheps)
     IN IF ~RoomHasUser(sessions[r], sessUser, u)
        THEN /\ Return(t, "WHEP", "streamer not found", NoToken)
             /\ UNCHANGED <<viewers, vPc, vStream, vSess>>
        ELSE /\ vPc' = [vPc EXCEPT ![w] = "open"]
             /\ IF st = 0
                THEN /\ Return(t, "WHEP", "panic: nil pointer dereference", NoToken)
                     /\ UNCHANGED <<viewers, vStream, vSess>>
                ELSE \E ok \in BOOLEAN :
                       IF ok
                       THEN /\ viewers' = [viewers EXCEPT ![st][vs] = w]
                            /\ vStream' = [vStream EXCEPT ![w] = st]
                            /\ vSess' = [vSess EXCEPT ![w] = vs]
                            /\ Return(t, "WHEP", "nil", NoToken)
                       ELSE /\ Return(t, "WHEP", "negotiation failed", NoToken)
                            /\ UNCHANGED <<viewers, vStream, vSess>>
  /\ UNCHANGED <<regVars, roomVars, sessVars, sessState, chanVars, userToken, stream,
                 inPc, inCb, vCb, stopCount, inUser, inRoom, calls, firstRecv>>

\* whep.go lines 91-95: the viewer's connection fails, the callback closes it
ViewerICEFailed(w) ==
  /\ UNCHANGED fwdVars
  /\ vPc[w] = "open"
  /\ vSess[w] # 0
  /\ vPc' = [vPc EXCEPT ![w] = "closed"]
  /\ vCb' = [vCb EXCEPT ![w] = TRUE]
  /\ UNCHANGED <<regVars, roomVars, sessVars, sessState, chanVars, userToken, stream,
                 viewers, inPc, inCb, stopCount, cbVars, pc, loc, ret, calls, firstRecv>>

\* whep.go lines 96-97 and userStream.removeViewer, room.go lines 265-273:
\* under the stream lock, close and delete the whepSession now keyed by the
\* viewer's session id
ViewerICEClosed(w) ==
  /\ UNCHANGED fwdVars
  /\ vCb[w]
  /\ SetX(removeViewer([CurX EXCEPT !.vCb[w] = FALSE], vStream[w], vSess[w]))
  /\ UNCHANGED <<regVars, roomVars, sessVars, sessState, chanVars, userToken, cbVars,
                 pc, loc, ret, calls, firstRecv>>

\* -------------------------------------------------------------- CloseAll
\* main.go line 275
CaCall(t, max) ==
  /\ UNCHANGED fwdVars
  /\ pc[t] = "idle"
  /\ Call(max)
  /\ pc' = [pc EXCEPT ![t] = "CA_lockRegistry"]
  /\ loc' = [loc EXCEPT ![t] = NoLoc]
  /\ UNCHANGED <<regVars, roomVars, sessVars, sessState, chanVars, userToken, strmVars,
                 cbVars, ret, firstRecv>>

\* CloseAll, room.go lines 74-77: roomMapLock.Lock(), range over roomMap
CaLockRegistry(t) ==
  /\ UNCHANGED fwdVars
  /\ pc[t] = "CA_lockRegistry"
  /\ roomMapLock = 0
  /\ roomMapLock' = t
  /\ LET rooms == { roomMap[rid] : rid \in RoomIds } \ {0}
     IN /\ loc' = [loc EXCEPT ![t].rooms = rooms]
        /\ pc' = [pc EXCEPT ![t] = IF rooms = {} THEN "CA_ret" ELSE "CA_lockRoom"]
  /\ UNCHANGED <<roomMap, roomIdOf, roomVars, sessVars, sessState, chanVars, userToken,
                 strmVars, cbVars, ret, calls, firstRecv>>

\* CloseAll, line 78: room.lock.Lock() on the next room of the range
CaLockRoom(t) ==
  /\ UNCHANGED fwdVars
  /\ pc[t] = "CA_lockRoom"
  /\ \E r \in loc[t].rooms :
       /\ roomLock[r] = 0
       /\ roomLock' = [roomLock EXCEPT ![r] = t]
       /\ loc' = [loc EXCEPT ![t].room = r]
  /\ pc' = [pc EXCEPT ![t] = "Close_next"]
  /\ UNCHANGED <<regVars, sessions, sessVars, sessState, chanVars, userToken, strmVars,
                 cbVars, ret, calls, firstRecv>>

\* Room.close, lines 157-159: for the next session of the range,
\* kickFromStreams and stopStream(session.User); when the range is over,
\* CloseAll unlocks the room (line 80) and goes on with the next room
CloseNext(t) ==
  /\ UNCHANGED fwdVars
  /\ pc[t] = "Close_next"
  /\ LET r == loc[t].room
         rest == loc[t].rooms \ {r}
     IN IF sessions[r] = {}
        THEN /\ roomLock' = [roomLock EXCEPT ![r] = 0]
             /\ loc' = [loc EXCEPT ![t].rooms = rest, ![t].room = 0]
             /\ pc' = [pc EXCEPT ![t] = IF rest = {} THEN "CA_ret" ELSE "CA_lockRoom"]
             /\ UNCHANGED strmVars
        ELSE /\ \E s \in sessions[r] :
                  LET X == stopStream(kickFromStreams(CurX, sessions[r], s), sessUser[s])
                  IN /\ SetX(X)
                     /\ loc' = [loc EXCEPT ![t].sess = s, ![t].pend = sessions[r],
                                  ![t].ev = newUpdateUsersEvent(sessions[r], sessUser, X.stream),
                                  ![t].next = "Close_sess"]
             /\ pc' = [pc EXCEPT ![t] = "bcast"]
             /\ UNCHANGED roomLock
  /\ UNCHANGED <<regVars, sessions, sessVars, sessState, chanVars, userToken, cbVars,
                 ret, calls, firstRecv>>

\* room.sessions after delete(room.sessions, sessionId), line 161
SessionKeptOnClose(r, s) == sessions
SessionDeleted(r, s) == [sessions EXCEPT ![r] = @ \ {s}]

\* Room.close, lines 160-161: close(session.Events), delete the session
CloseSess(t) ==
  /\ UNCHANGED fwdVars
  /\ pc[t] = "Close_sess"
  /\ closed' = [closed EXCEPT ![loc[t].sess] = IF @ < 2 THEN @ + 1 ELSE @]
  /\ sessions' = SessionDeleted(loc[t].room, loc[t].sess)
  /\ pc' = [pc EXCEPT ![t] = "Close_next"]
  /\ UNCHANGED <<regVars, roomLock, sessVars, sessState, events, firstSent, userToken,
                 strmVars, cbVars, loc, ret, calls, firstRecv>>

\* CloseAll returns: the deferred roomMapLock.Unlock()
CaRet(t) ==
  /\ UNCHANGED fwdVars
  /\ pc[t] = "CA_ret"
  /\ roomMapLock' = 0
  /\ Return(t, "CloseAll", "nil", NoToken)
  /\ UNCHANGED <<roomMap, roomIdOf, roomVars, sessVars, sessState, chanVars, userToken,
                 strmVars, cbVars, calls, firstRecv>>

\* --------------------------------------------------------- specifications
\* the steps of a thread that is inside a call
Step(t) ==
  \/ JoinLockRegistry(t) \/ JoinLockRoom(t) \/ JoinRet(t)
  \/ RmLockRoom(t) \/ RmAfterStop(t) \/ RmLockRegistry(t) \/ RmRet(t)
  \/ WhipLockRegistry(t) \/ WhipLockRoom(t) \/ WhipStarted(t) \/ WhipNegotiate(t)
  \/ FinLockRegistry(t) \/ FinLockRoom(t) \/ FinRet(t)
  \/ IceLockRoom(t) \/ IceRet(t)
  \/ WhepFind(t) \/ WhepLockRoom(t)
  \/ CaLockRegistry(t) \/ CaLockRoom(t) \/ CloseNext(t) \/ CloseSess(t) \/ CaRet(t)
  \/ BcastSend(t)

Next ==
  \/ \E t \in Threads : JoinCall(t, MaxCalls)
  \/ \E t \in Threads : RmCall(t, MaxCalls)
  \/ \E t \in Threads : WhipCall(t, MaxCalls)
  \/ \E t \in Threads : FinCall(t, MaxCalls)
  \/ \E t \in Threads : WhepCall(t, MaxWheps)
  \/ \E t \in Threads : CaCall(t, MaxCalls)
  \/ \E t \in Threads : IceClosedCall(t)
  \/ \E t \in Threads : Step(t)
  \/ \E t \in Threads : Done(t)
  \/ \E st \in StreamIds : IngressICEFailed(st)
  \/ \E w \in WhepIds : ViewerICEFailed(w)
  \/ \E w \in WhepIds : ViewerICEClosed(w)
  \/ \E s \in SessionIds : Receive(s)

Spec == Init /\ [][Next]_vars

\* A client that stops reading its connection: the handler of main.go stays
\* in its write and takes no further event.  One goroutine joins and then
\* ends streams (stopStream broadcasts on every call), nothing is received.
SlowThread == Min(Threads)
NextSlow ==
  \/ JoinCall(SlowThread, MaxSlowCalls)
  \/ JoinLockRegistry(SlowThread)
  \/ JoinLockRoom(SlowThread)
  \/ JoinRet(SlowThread)
  \/ FinCall(SlowThread, MaxSlowCalls)
  \/ FinLockRegistry(SlowThread)
  \/ FinLockRoom(SlowThread)
  \/ FinRet(SlowThread)
  \/ BcastSend(SlowThread)
  \/ Done(SlowThread)

SpecSlow == Init /\ [][NextSlow]_vars

\* Sessions that join, publish, end their streams, watch and leave: the calls
\* of a room's members and the ICE callbacks, without the handlers' receive
\* loops, long enough for a user with two sessions to publish, watch its own
\* stream and close one of them, or for a user to publish a second time.
StepLeave(t) ==
  \/ JoinLockRegistry(t) \/ JoinLockRoom(t) \/ JoinRet(t)
  \/ RmLockRoom(t) \/ RmAfterStop(t) \/ RmLockRegistry(t) \/ RmRet(t)
  \/ WhipLockRegistry(t) \/ WhipLockRoom(t) \/ WhipStarted(t) \/ WhipNegotiate(t)
  \/ FinLockRegistry(t) \/ FinLockRoom(t) \/ FinRet(t)
  \/ WhepFind(t) \/ WhepLockRoom(t)
  \/ IceLockRoom(t) \/ IceRet(t)
  \/ BcastSend(t)

NextLeave ==
  \/ \E t \in Threads : JoinCall(t, MaxLeaveCalls)
  \/ \E t \in Threads : RmCall(t, MaxLeaveCalls)
  \/ \E t \in Threads : WhipCall(t, MaxLeaveCalls)
  \/ \E t \in Threads : FinCall(t, MaxLeaveCalls)
  \/ \E t \in Threads : WhepCall(t, MaxWheps)
  \/ \E t \in Threads : IceClosedCall(t)
  \/ \E t \in Threads : StepLeave(t)
  \/ \E t \in Threads : Done(t)
  \/ \E st \in StreamIds : IngressICEFailed(st)
  \/ \E w \in WhepIds : ViewerICEFailed(w)
  \/ \E w \in WhepIds : ViewerICEClosed(w)

SpecLeave == Init /\ [][NextLeave]_vars

\* Sessions that call WHEP again: users join and publish, and a session
\* watches a stream more than once; the viewers' ICE callbacks run.
StepWatch(t) ==
  \/ JoinLockRegistry(t) \/ JoinLockRoom(t) \/ JoinRet(t)
  \/ WhipLockRegistry(t) \/ WhipLockRoom(t) \/ WhipStarted(t) \/ WhipNegotiate(t)
  \/ WhepFind(t) \/ WhepLockRoom(t)
  \/ BcastSend(t)

NextWatch ==
  \/ \E t \in Threads : JoinCall(t, MaxWatchCalls)
  \/ \E t \in Threads : WhipCall(t, MaxWatchCalls)
  \/ \E t \in Threads : WhepCall(t, MaxViewers)
  \/ \E t \in Threads : StepWatch(t)
  \/ \E t \in Threads : Done(t)
  \/ \E w \in WhepIds : ViewerICEFailed(w)
  \/ \E w \in WhepIds : ViewerICEClosed(w)

SpecWatch == Init /\ [][NextWatch]_vars

\* ------------------------------------------------------ forwarding
\* The behaviours of a publisher that sends video: a client has joined,
\* started a stream (WHIP) and attached itself as a viewer (WHEP); the
\* OnTrack callback (whip.go:126-141) has started one videoWriter per layer.
\* The viewer stays connected, so WriteRTP returns nil and videoWriter's list of
\* disconnected viewers stays empty.
FwdStream == Min(StreamIds)
FwdViewer == Min(WhepIds)
FwdSession == Min(SessionIds)

\* the timestamps of the packets read from the remote track
PktTimestamps == {Zero32, U32(3000), MaxU32}

\* the goroutines of the stream and of its viewer: each videoWriter has
\* started its PLI forwarder, the viewer's WHEP its RTCP reader
FwdWorkers == [pli |-> [f \in Layers |-> "run"],
               rtcp |-> [w \in WhepIds |-> IF w = FwdViewer THEN "run" ELSE "off"]]

InitFwd ==
  /\ roomMap = [rid \in RoomIds |-> FwdSession]
  /\ roomMapLock = 0
  /\ roomIdOf = [r \in RoomObjs |-> IF r = FwdSession THEN "r1" ELSE ""]
  /\ roomLock = [r \in RoomObjs |-> 0]
  /\ sessions = [r \in RoomObjs |-> IF r = FwdSession THEN {FwdSession} ELSE {}]
  /\ sessUser = [s \in SessionIds |-> IF s = FwdSession THEN FwdSession ELSE 0]
  /\ sessRoom = [s \in SessionIds |-> IF s = FwdSession THEN FwdSession ELSE 0]
  /\ sessState = [s \in SessionIds |-> IF s = FwdSession THEN "active" ELSE "none"]
  /\ events = [s \in SessionIds |-> <<>>]
  /\ closed = [s \in SessionIds |-> 0]
  /\ userToken = [u \in UserIds |-> IF u = FwdSession THEN [name |-> "a", len |-> 1]
                                     ELSE NoToken]
  /\ stream = [u \in UserIds |-> IF u = FwdSession THEN FwdStream ELSE 0]
  /\ viewers = [st \in StreamIds |-> [s \in SessionIds |->
                  IF st = FwdStream /\ s = FwdSession THEN FwdViewer ELSE 0]]
  /\ inPc = [st \in StreamIds |-> IF st = FwdStream THEN "open" ELSE "none"]
  /\ inCb = [st \in StreamIds |-> FALSE]
  /\ inUser = [st \in StreamIds |-> IF st = FwdStream THEN FwdSession ELSE 0]
  /\ inRoom = [st \in StreamIds |-> IF st = FwdStream THEN FwdSession ELSE 0]
  /\ vPc = [w \in WhepIds |-> IF w = FwdViewer THEN "open" ELSE "none"]
  /\ vCb = [w \in WhepIds |-> FALSE]
  /\ vStream = [w \in WhepIds |-> IF w = FwdViewer THEN FwdStream ELSE 0]
  /\ vSess = [w \in WhepIds |-> IF w = FwdViewer THEN FwdSession ELSE 0]
  /\ pc = [t \in Threads |-> "idle"]
  /\ loc = [t \in Threads |-> NoLoc]
  /\ ret = [t \in Threads |-> NoRet]
  /\ calls = 2
  /\ stopCount = [st \in StreamIds |-> 0]
  /\ firstSent = [s \in SessionIds |-> IF s = FwdSession THEN SessionEvent(s) ELSE NoEvent]
  /\ firstRecv = [s \in SessionIds |-> IF s = FwdSession THEN SessionEvent(s) ELSE NoEvent]
  \* the viewer has been forwarded any number of packets of an earlier stream
  \* of the layers, or none
  /\ \E q \in {0, SeqMod - 1}, ts \in {U32(WhepStartTimestamp), Sub32(Zero32, U32(2000))} :
       whep = [w \in WhepIds |-> IF w = FwdViewer
                                  THEN [NewWhepSession EXCEPT !.seq = q, !.ts = ts]
                                  ELSE NewWhepSession]
  /\ written = [w \in WhepIds |-> <<>>]
  /\ fwd = [f \in Layers |-> FwdStarted]
  /\ pkts = 0
  /\ pliChan = [st \in StreamIds |-> 0]
  /\ workers = FwdWorkers

\* what the forwarding steps leave alone
UnchangedRoom ==
  UNCHANGED <<regVars, roomVars, sessVars, sessState, chanVars, userToken, strmVars,
              cbVars, pc, loc, ret, calls, firstRecv>>

\* timeDiff of a packet, whip.go lines 69-72
timeDiff(last, ts) == IF last = Zero32 THEN Zero32 ELSE Sub32(ts, last)

\* the forwarder goes on with the next viewer of its range over
\* stream.viewers, or leaves the loop (RUnlock) and reads the next packet
FwdNextViewer(f, todo) ==
  [fwd[f] EXCEPT !.todo = todo, !.cur = 0,
                 !.pc = IF todo = {} THEN "read" ELSE "send"]

\* videoWriter, whip.go lines 60-76: read a packet, compute timeDiff, take the
\* read lock and start the range over stream.viewers
FwdRead(f, max) ==
  /\ fwd[f].pc = "read"
  /\ pkts < max
  /\ pkts' = pkts + 1
  /\ \E ts \in PktTimestamps :
       LET todo == { s \in SessionIds : viewers[FwdStream][s] # 0 }
       IN fwd' = [fwd EXCEPT ![f] =
                    [FwdNextViewer(f, todo) EXCEPT !.ts = ts,
                                                   !.diff = timeDiff(fwd[f].last, ts),
                                                   !.last = ts,
                                                   !.n = @ + 1]]
  /\ UNCHANGED <<whep, written, pliChan, workers>>
  /\ UnchangedRoom

\* sendVideoPacket, whep.go line 160: w.currentLayer.Load() == ""
FwdLatchLoad(f) ==
  /\ fwd[f].pc = "send"
  /\ \E s \in fwd[f].todo :
       LET w == viewers[FwdStream][s]
       IN fwd' = [fwd EXCEPT ![f].cur = s,
                             ![f].pc = IF whep[w].layer = NoLayer THEN "store" ELSE "check"]
  /\ UNCHANGED <<whep, written, pkts, pliChan, workers>>
  /\ UnchangedRoom

\* sendVideoPacket, line 161: w.currentLayer.Store(layer)
FwdLatchStore(f) ==
  /\ fwd[f].pc = "store"
  /\ whep' = [whep EXCEPT ![viewers[FwdStream][fwd[f].cur]].layer = f]
  /\ fwd' = [fwd EXCEPT ![f].pc = "seq_load"]
  /\ UNCHANGED <<written, pkts, pliChan, workers>>
  /\ UnchangedRoom

\* whether sendVideoPacket drops a packet of the layer, given the layer the
\* second Load returns (line 162)
LayerNeverDiffers(layer, cur) == FALSE
LayerDiffers(layer, cur) == layer # cur

\* sendVideoPacket, lines 162-164: layer != w.currentLayer.Load(), return nil
FwdLatchCheck(f) ==
  /\ fwd[f].pc = "check"
  /\ LET w == viewers[FwdStream][fwd[f].cur]
     IN fwd' = [fwd EXCEPT ![f] =
                  IF LayerDiffers(f, whep[w].layer)
                  THEN FwdNextViewer(f, fwd[f].todo \ {fwd[f].cur})
                  ELSE [fwd[f] EXCEPT !.pc = "seq_load"]]
  /\ UNCHANGED <<whep, written, pkts, pliChan, workers>>
  /\ UnchangedRoom

\* sendVideoPacket, line 166, w.sequenceNumber += 1: the read of the field.
\* The forwarders hold only the read lock, so the read and the write of the
\* increment are separate steps.
FwdSeqLoad(f) ==
  /\ fwd[f].pc = "seq_load"
  /\ fwd' = [fwd EXCEPT ![f].seq = whep[viewers[FwdStream][fwd[f].cur]].seq,
                        ![f].pc = "seq_store"]
  /\ UNCHANGED <<whep, written, pkts, pliChan, workers>>
  /\ UnchangedRoom

\* sendVideoPacket, line 166: the write of the incremented uint16
FwdSeqStore(f) ==
  /\ fwd[f].pc = "seq_store"
  /\ whep' = [whep EXCEPT ![viewers[FwdStream][fwd[f].cur]].seq = (fwd[f].seq + 1) % SeqMod]
  /\ fwd' = [fwd EXCEPT ![f].pc = "ts_load"]
  /\ UNCHANGED <<written, pkts, pliChan, workers>>
  /\ UnchangedRoom

\* sendVideoPacket, line 167, w.timestamp += timeDiff: the read
FwdTsLoad(f) ==
  /\ fwd[f].pc = "ts_load"
  /\ fwd' = [fwd EXCEPT ![f].tmp = whep[viewers[FwdStream][fwd[f].cur]].ts,
                        ![f].pc = "ts_store"]
  /\ UNCHANGED <<whep, written, pkts, pliChan, workers>>
  /\ UnchangedRoom

\* sendVideoPacket, line 167: the write of the uint32 sum
FwdTsStore(f) ==
  /\ fwd[f].pc = "ts_store"
  /\ whep' = [whep EXCEPT ![viewers[FwdStream][fwd[f].cur]].ts =
                            Add32(fwd[f].tmp, fwd[f].diff)]
  /\ fwd' = [fwd EXCEPT ![f].pc = "write"]
  /\ UNCHANGED <<written, pkts, pliChan, workers>>
  /\ UnchangedRoom

\* sendVideoPacket, lines 169-175: the packet takes the fields' current values
\* and is written to the viewer's track
FwdWrite(f) ==
  /\ fwd[f].pc = "write"
  /\ LET w == viewers[FwdStream][fwd[f].cur]
     IN written' = [written EXCEPT ![w] =
                      Append(@, [seq |-> whep[w].seq, ts |-> whep[w].ts, layer |-> f,
                                 diff |-> fwd[f].diff])]
  /\ fwd' = [fwd EXCEPT ![f] = FwdNextViewer(f, fwd[f].todo \ {fwd[f].cur})]
  /\ UNCHANGED <<whep, pkts, pliChan, workers>>
  /\ UnchangedRoom

NextFwd ==
  \/ \E f \in Layers : FwdRead(f, MaxPackets)
  \/ \E f \in Layers : FwdLatchLoad(f)
  \/ \E f \in Layers : FwdLatchStore(f)
  \/ \E f \in Layers : FwdLatchCheck(f)
  \/ \E f \in Layers : FwdSeqLoad(f)
  \/ \E f \in Layers : FwdSeqStore(f)
  \/ \E f \in Layers : FwdTsLoad(f)
  \/ \E f \in Layers : FwdTsStore(f)
  \/ \E f \in Layers : FwdWrite(f)

SpecFwd == InitFwd /\ [][NextFwd]_vars

\* ---------------------------------------------- layers and keyframes
\* WHEP's RTCP reader, whep.go lines 110-126: a PictureLossIndication of the
\* viewer is put into the publisher's channel, or dropped when it is full
ViewerPLI(w) ==
  /\ workers.rtcp[w] = "run"
  /\ vPc[w] = "open"
  /\ vSess[w] # 0
  /\ pliChan[vStream[w]] < MaxPlis
  /\ pliChan' = [pliChan EXCEPT ![vStream[w]] = IF @ < PliCap THEN @ + 1 ELSE @]
  /\ UNCHANGED <<whep, written, fwd, pkts, workers>>
  /\ UnchangedRoom

\* videoWriter's goroutine, whip.go lines 39-49: for range stream.pliChan,
\* WriteRTCP of a PictureLossIndication to the publisher; the goroutine
\* returns when the write fails, which it does on a closed peer connection
PliForward(f) ==
  /\ workers.pli[f] = "run"
  /\ pliChan[FwdStream] > 0
  /\ pliChan' = [pliChan EXCEPT ![FwdStream] = @ - 1]
  /\ workers' = [workers EXCEPT !.pli[f] = IF inPc[FwdStream] = "closed" THEN "exited" ELSE @]
  /\ UNCHANGED <<whep, written, fwd, pkts>>
  /\ UnchangedRoom

\* main.go whepLayerHandler: POST /api/layer/{whepSessionId} with an encodingId
ChgCall(t, max) ==
  /\ pc[t] = "idle"
  /\ Call(max)
  /\ \E w \in { x \in WhepIds : vSess[x] # 0 }, l \in Layers :
       loc' = [loc EXCEPT ![t] = [NoLoc EXCEPT !.whep = w, !.layer = l]]
  /\ pc' = [pc EXCEPT ![t] = "Chg_ret"]
  /\ UNCHANGED <<regVars, roomVars, sessVars, sessState, chanVars, userToken, strmVars,
                 cbVars, ret, firstRecv, fwdVars>>

\* WHEPChangeLayer, whep.go lines 48-63: the whole body is commented out, the
\* function returns nil
ChgRet(t) ==
  /\ pc[t] = "Chg_ret"
  /\ Return(t, "WHEPChangeLayer", "nil", NoToken)
  /\ UNCHANGED <<regVars, roomVars, sessVars, sessState, chanVars, userToken, strmVars,
                 cbVars, calls, firstRecv, fwdVars>>

NextLayer ==
  \/ \E f \in Layers : FwdRead(f, MaxLayerPackets)
  \/ \E f \in Layers : FwdLatchLoad(f)
  \/ \E f \in Layers : FwdLatchStore(f)
  \/ \E f \in Layers : FwdLatchCheck(f)
  \/ \E f \in Layers : FwdSeqLoad(f)
  \/ \E f \in Layers : FwdSeqStore(f)
  \/ \E f \in Layers : FwdTsLoad(f)
  \/ \E f \in Layers : FwdTsStore(f)
  \/ \E f \in Layers : FwdWrite(f)
  \/ \E w \in WhepIds : ViewerPLI(w)
  \/ \E f \in Layers : PliForward(f)
  \/ ChgCall(SlowThread, MaxLayerCalls)
  \/ ChgRet(SlowThread)
  \/ Done(SlowThread)

SpecLayer == InitFwd /\ [][NextLayer]_vars

\* ------------------------------------------------------ waiting on locks
\* the labels at which a thread is about to take the registry lock
RegistryAcquire == {"Join_lockRegistry", "Rm_lockRegistry", "WHIP_lockRegistry",
                    "Fin_lockRegistry", "WHEP_find", "CA_lockRegistry"}
\* the labels at which a thread is about to take the lock of room loc.room
RoomAcquire == {"Join_lockRoom", "Rm_lockRoom", "WHIP_lockRoom", "Fin_lockRoom",
                "Ice_lockRoom", "WHEP_lockRoom"}

\* the thread that holds the lock thread t is about to take (0: the lock is free
\* or t is not at a lock)
WaitsFor(t) ==
  IF pc[t] \in RegistryAcquire THEN roomMapLock
  ELSE IF pc[t] \in RoomAcquire THEN roomLock[loc[t].room]
  ELSE IF pc[t] = "CA_lockRoom" /\ \A r \in loc[t].rooms : roomLock[r] # 0
       THEN roomLock[CHOOSE r \in loc[t].rooms : TRUE]
  ELSE 0

\* ------------------------------------------------- the end of a stream
\* videoWriter, whip.go lines 60-63: remoteTrack.Read fails on a closed peer
\* connection and the videoWriter returns
FwdReadErr(f) ==
  /\ fwd[f].pc = "read"
  /\ inPc[FwdStream] = "closed"
  /\ fwd' = [fwd EXCEPT ![f].pc = "exited"]
  /\ UNCHANGED <<whep, written, pkts, pliChan, workers>>
  /\ UnchangedRoom

\* WHEP's RTCP reader, whep.go lines 112-115: ReadRTCP fails on a closed
\* viewer peer connection and the goroutine returns
RtcpExit(w) ==
  /\ workers.rtcp[w] = "run"
  /\ vPc[w] = "closed"
  /\ workers' = [workers EXCEPT !.rtcp[w] = "exited"]
  /\ UNCHANGED <<whep, written, fwd, pkts, pliChan>>
  /\ UnchangedRoom

\* FinishWHIP's stopStream with userStream.stop(), room.go lines 275-277:
\* stream.lock.Lock() waits until no videoWriter holds the read lock
FinLockStream(t) ==
  /\ \A f \in Layers : fwd[f].pc \in {"off", "read", "exited"}
  /\ FinLockRoom(t)

\* A publisher that ends its stream while it is forwarded to a viewer.
NextStop ==
  \/ \E f \in Layers : FwdRead(f, MaxStopPackets)
  \/ \E f \in Layers : FwdReadErr(f)
  \/ \E f \in Layers : FwdLatchLoad(f)
  \/ \E f \in Layers : FwdLatchStore(f)
  \/ \E f \in Layers : FwdLatchCheck(f)
  \/ \E f \in Layers : FwdSeqLoad(f)
  \/ \E f \in Layers : FwdSeqStore(f)
  \/ \E f \in Layers : FwdTsLoad(f)
  \/ \E f \in Layers : FwdTsStore(f)
  \/ \E f \in Layers : FwdWrite(f)
  \/ \E w \in WhepIds : ViewerPLI(w)
  \/ \E w \in WhepIds : RtcpExit(w)
  \/ \E f \in Layers : PliForward(f)
  \/ FinCall(SlowThread, MaxStopCalls)
  \/ FinLockRegistry(SlowThread)
  \/ FinLockStream(SlowThread)
  \/ BcastSend(SlowThread)
  \/ FinRet(SlowThread)
  \/ Done(SlowThread)

SpecStop == InitFwd /\ [][NextStop]_vars

\* ================================================================ claims

\* C1: startStream succeeds only on an empty slot; on an occupied slot WHIP
\* returns "already streaming", the slot keeps the earlier stream and no event
\* is enqueued; every stream that was started and not stopped is the one in
\* its user's slot, so a user never has two live publisher streams.
C1_LiveStreamInSlot ==
  \A st \in StreamIds :
    (inUser[st] # 0 /\ stopCount[st] = 0) => stream[inUser[st]] = st
C1_StartStreamStep ==
  \A t \in Threads :
    (pc[t] = "WHIP_lockRoom" /\ pc'[t] # "WHIP_lockRoom") =>
      IF stream[loc[t].user] # 0
      THEN /\ pc'[t] = "done"
           /\ ret'[t].op = "WHIP" /\ ret'[t].err = "already streaming"
           /\ stream' = stream
           /\ events' = events
      ELSE /\ pc'[t] # "done"
           /\ stream'[loc[t].user] = loc[t].strm
           /\ \A u \in UserIds \ {loc[t].user} : stream'[u] = stream[u]
C1_StartStream == [] C1_LiveStreamInSlot /\ [][C1_StartStreamStep]_vars

C1_Witness ==
  \E t \in Threads :
    /\ ret[t].op = "WHIP" /\ ret[t].err = "already streaming"
    /\ \E u \in UserIds : stream[u] # 0 /\ userToken[u] = ret[t].tok

\* C2: stopStream is idempotent: a stream is torn down by at most one
\* stopStream call, and a stopStream call (FinishWHIP, ICE Closed callback)
\* that finds the slot empty closes no peer connection and changes no stream.
C2_StopOnEmptySlotStep ==
  \A t \in Threads :
    (pc[t] \in {"Fin_lockRoom", "Ice_lockRoom"} /\ pc'[t] # pc[t]
       /\ stream[loc[t].user] = 0) =>
      UNCHANGED <<stream, viewers, inPc, inCb, vPc, vCb, stopCount>>
C2_StopIdempotent ==
  [] (\A st \in StreamIds : stopCount[st] <= 1) /\ [][C2_StopOnEmptySlotStep]_vars

C2_Witness ==
  \E t1, t2 \in Threads, st \in StreamIds, w \in WhepIds :
    /\ ret[t1].op = "FinishWHIP" /\ ret[t1].err = "nil"
    /\ ret[t2].op = "ICEClosed"
    /\ stopCount[st] = 1 /\ inPc[st] = "closed" /\ ~inCb[st]
    /\ vStream[w] = st /\ vPc[w] = "closed"

\* C3: whenever the registry lock is free, every room in the registry has at
\* least one session.
C3_NoEmptyRoomInRegistry ==
  roomMapLock = 0 =>
    \A rid \in RoomIds : roomMap[rid] # 0 => sessions[roomMap[rid]] # {}

\* C4: no thread is about to take the registry lock while it holds a room
\* lock (stream locks are taken and released inside one step and never span
\* the taking of another lock).
C4_LockOrder ==
  \A t \in Threads : pc[t] \in RegistryAcquire => "room" \notin Held(t)

\* C5: no two threads wait for a lock the other one holds.
C5_NoLockCycle ==
  \A t1, t2 \in Threads :
    ~(t1 # t2 /\ WaitsFor(t1) = t2 /\ WaitsFor(t2) = t1)

\* C6: Join fails with ErrInvalidAuthToken exactly when the token is empty or
\* has 1024 bytes or more, and a failing Join changes neither the registry
\* nor any room, session, queue, user or stream.
C6_TokenChecked ==
  \A t \in Threads :
    /\ (ret[t].op = "Join" /\ ret[t].err = "ErrInvalidAuthToken")
         => (ret[t].tok.len = 0 \/ ret[t].tok.len >= 1024)
    /\ (ret[t].op = "Join" /\ ret[t].err = "nil")
         => (ret[t].tok.len > 0 /\ ret[t].tok.len < 1024)
    /\ pc[t] \in {"Join_lockRegistry", "Join_lockRoom", "Join_ret"}
         => (loc[t].tok.len > 0 /\ loc[t].tok.len < 1024)
C6_FailedJoinStep ==
  \A t \in Threads :
    (ret'[t] # ret[t] /\ ret'[t].op = "Join" /\ ret'[t].err = "ErrInvalidAuthToken") =>
      UNCHANGED <<regVars, roomVars, sessVars, sessState, chanVars, userToken, strmVars>>
C6_InvalidAuthToken == [] C6_TokenChecked /\ [][C6_FailedJoinStep]_vars

C6_Witness ==
  \E t \in Threads :
    /\ ret[t].op = "Join" /\ ret[t].err = "ErrInvalidAuthToken"
    /\ ret[t].tok.len = 1024
    /\ \E rid \in RoomIds : roomMap[rid] # 0 /\ sessions[roomMap[rid]] # {}

\* C7: the first event sent to a session, and the first one its consumer
\* receives, is the SessionEvent with the session's own id; a queue changes
\* only by an append at its tail or by the removal of its head.
C7_FirstIsSessionEvent ==
  \A s \in SessionIds :
    /\ firstSent[s] # NoEvent => firstSent[s] = SessionEvent(s)
    /\ firstRecv[s] # NoEvent => firstRecv[s] = SessionEvent(s)
    /\ (firstRecv[s] = NoEvent /\ events[s] # <<>>) => Head(events[s]) = SessionEvent(s)
    /\ sessState[s] \in {"active", "leaving", "removed"} => firstSent[s] # NoEvent
C7_FifoStep ==
  \A s \in SessionIds :
    events'[s] # events[s] =>
      \/ events[s] # <<>> /\ events'[s] = Tail(events[s])
      \/ /\ Len(events'[s]) > Len(events[s])
         /\ SubSeq(events'[s], 1, Len(events[s])) = events[s]
C7_SessionEventFirst == [] C7_FirstIsSessionEvent /\ [][C7_FifoStep]_vars

C7_Witness ==
  \E s \in SessionIds :
    /\ firstRecv[s] = SessionEvent(s)
    /\ \E i \in 1..Len(events[s]) :
         events[s][i].type = "users" /\ \E m \in events[s][i].users : m.streaming

\* C8: a session's queue is closed exactly once, by the time RemoveSession
\* of the session has returned.
C8_ClosedOnRemove ==
  \A s \in SessionIds :
    /\ closed[s] <= 1
    /\ sessState[s] = "removed" => closed[s] = 1

\* C9: no thread waits at a send on a full event queue.
C9_EnqueueNeverBlocks ==
  \A t \in Threads : ~(pc[t] = "bcast" /\ loc[t].cur # 0)

\* C10: when RemoveSession returns and the room has no session left, the
\* registry no longer holds that room; a room put into the registry is a new
\* object that never was in the registry before.
C10_RemoveReturnStep ==
  \A t \in Threads :
    (pc[t] = "Rm_ret" /\ pc'[t] = "done" /\ sessions[loc[t].room] = {}) =>
      \A rid \in RoomIds : roomMap'[rid] # loc[t].room
C10_NewRoomStep ==
  \A rid \in RoomIds :
    (roomMap'[rid] # roomMap[rid] /\ roomMap'[rid] # 0) =>
      /\ roomMap[rid] = 0
      /\ roomIdOf[roomMap'[rid]] = ""
      /\ sessions[roomMap'[rid]] = {}
C10_RoomDeletedWhenEmpty == [][C10_RemoveReturnStep /\ C10_NewRoomStep]_vars

C10_Witness ==
  \E s \in SessionIds, rid \in RoomIds :
    /\ sessState[s] = "removed"
    /\ roomMap[rid] # 0 /\ roomMap[rid] # sessRoom[s]
    /\ roomIdOf[sessRoom[s]] = rid
    /\ sessions[roomMap[rid]] # {}

\* C11: when CloseAll returns, the registry holds no room, the queue of every
\* session that was not removed before is closed, every stream slot is empty
\* and every ingress or viewer peer connection attached to a stream is closed.
C11_CloseAllReturnStep ==
  \A t \in Threads :
    (pc[t] = "CA_ret" /\ pc'[t] = "done") =>
      /\ \A rid \in RoomIds : roomMap'[rid] = 0
      /\ \A s \in SessionIds : sessState'[s] \in {"active", "leaving"} => closed'[s] = 1
      /\ \A u \in UserIds : stream'[u] = 0
      /\ \A st \in StreamIds : inUser'[st] # 0 => inPc'[st] = "closed"
      /\ \A w \in WhepIds : vSess'[w] # 0 => vPc'[w] = "closed"
C11_CloseAllClears == [][C11_CloseAllReturnStep]_vars

\* C12: the stopStream of FinishWHIP and of the ingress ICE Closed callback
\* leaves the user's slot empty, closes the ingress peer connection and every
\* viewer peer connection of the stream it took out, empties that stream's
\* viewer map and broadcasts to every session of the room a UsersUpdated event
\* that lists the user, if still a member, with streaming = false; a broadcast
\* appends its event to the queue of each session it was started for.
C12_StopStreamStep ==
  \A t \in Threads :
    (pc[t] \in {"Fin_lockRoom", "Ice_lockRoom"} /\ pc'[t] # pc[t]) =>
      LET u == loc[t].user
          r == loc[t].room
          old == stream[u]
          ev == loc'[t].ev
      IN /\ stream'[u] = 0
         /\ old # 0 =>
              /\ inPc'[old] = "closed"
              /\ \A s \in SessionIds :
                   /\ viewers'[old][s] = 0
                   /\ viewers[old][s] # 0 => vPc'[viewers[old][s]] = "closed"
         /\ loc'[t].pend = sessions[r]
         /\ ev.type = "users"
         /\ \A m \in ev.users : m.id = u => ~m.streaming
         /\ RoomHasUser(sessions[r], sessUser, u)
              => [id |-> u, streaming |-> FALSE] \in ev.users
C12_BroadcastStep ==
  \A t \in Threads :
    (pc[t] = "bcast" /\ loc'[t] # loc[t]) =>
      /\ \A s \in loc[t].pend \ loc'[t].pend : events'[s] = Append(events[s], loc[t].ev)
      /\ pc'[t] # "bcast" => Cardinality(loc[t].pend) = 1
C12_StopStreamEffect == [][C12_StopStreamStep /\ C12_BroadcastStep]_vars

C12_Witness ==
  \E t \in Threads, st \in StreamIds, w \in WhepIds :
    /\ pc[t] = "Fin_ret"
    /\ stopCount[st] = 1 /\ inPc[st] = "closed" /\ inCb[st]
    /\ inUser[st] = loc[t].user
    /\ vStream[w] = st /\ vPc[w] = "closed"
    /\ \E s \in sessions[loc[t].room] :
         /\ events[s] # <<>>
         /\ events[s][Len(events[s])] = loc[t].ev
         /\ [id |-> loc[t].user, streaming |-> FALSE] \in loc[t].ev.users

\* C13: when the ICE Closed callback of a viewer peer connection has run, the
\* viewer map of the stream it was attached to has no entry for the viewer's
\* session id; the callback enqueues no event and changes neither a stream
\* slot nor a session map nor the registry.
C13_ViewerClosedStep ==
  \A w \in WhepIds :
    (vCb[w] /\ ~vCb'[w]) =>
      /\ viewers'[vStream[w]][vSess[w]] = 0
      /\ UNCHANGED <<events, stream, sessions, roomMap, inPc>>
C13_ViewerRemoved == [][C13_ViewerClosedStep]_vars

C13_Witness ==
  \E w \in WhepIds, u \in UserIds :
    /\ vSess[w] # 0 /\ vPc[w] = "closed" /\ ~vCb[w]
    /\ stream[u] = vStream[w]
    /\ sessState[vSess[w]] = "active"
    /\ viewers[vStream[w]][vSess[w]] = 0

\* C14: the sequence numbers written to a viewer's track are consecutive
\* modulo 2^16: each written packet carries the number of the one before it
\* plus 1.
C14_ConsecutiveSeq ==
  \A w \in WhepIds :
    \A i \in 2..Len(written[w]) :
      written[w][i].seq = (written[w][i - 1].seq + 1) % SeqMod

\* C15: a sendVideoPacket that finds the viewer's layer empty stores its own
\* layer and goes on to forward the packet; one that finds another layer than
\* its own returns at once and changes neither the viewer's sequence number,
\* timestamp and layer nor what was written to the track; a forwarded packet is
\* written to the track exactly once.
C15_LatchStep ==
  \A f \in Layers :
    LET w == viewers[FwdStream][fwd[f].cur]
    IN /\ (fwd[f].pc = "send" /\ fwd'[f].pc # "send" /\ whep[FwdViewer].layer = NoLayer)
            => fwd'[f].pc = "store"
       /\ (fwd[f].pc = "store" /\ fwd'[f] # fwd[f])
            => (whep'[w].layer = f /\ fwd'[f].pc = "seq_load")
       /\ (fwd[f].pc = "check" /\ fwd'[f] # fwd[f] /\ whep[w].layer # f)
            => /\ fwd'[f].pc \in {"read", "send"}
               /\ UNCHANGED <<whep, written>>
       /\ (fwd[f].pc = "write" /\ fwd'[f] # fwd[f])
            => /\ Len(written'[w]) = Len(written[w]) + 1
               /\ written'[w][Len(written'[w])].layer = f
C15_LayerLatch == [][C15_LatchStep]_vars

C15_Witness ==
  \E f \in Layers :
    /\ fwd[f].pc = "read" /\ fwd[f].last # Zero32
    /\ whep[FwdViewer].layer \notin {NoLayer, f}
    /\ written[FwdViewer] # <<>>
    /\ \A i \in 1..Len(written[FwdViewer]) : written[FwdViewer][i].layer # f

\* C16: when WHEPChangeLayer(viewer, L') returns, the viewer's current layer
\* is L' and one keyframe request has been added to the channel of the stream
\* the viewer is attached to (none when the channel is full).
C16_ChangeLayerStep ==
  \A t \in Threads :
    (pc[t] = "Chg_ret" /\ pc'[t] = "done") =>
      LET w == loc[t].whep
          st == vStream[w]
      IN /\ whep'[w].layer = loc[t].layer
         /\ pliChan'[st] = IF pliChan[st] < PliCap THEN pliChan[st] + 1 ELSE pliChan[st]
C16_ChangeLayer == [][C16_ChangeLayerStep]_vars

\* C17: in every room, two sessions whose users carry the same auth token have
\* the same user: a Join with a token already used in the room attaches the
\* new session to the existing user and creates no user.
C17_TokenIdentifiesUser ==
  \A r \in RoomObjs :
    \A s1, s2 \in sessions[r] :
      userToken[sessUser[s1]] = userToken[sessUser[s2]] => sessUser[s1] = sessUser[s2]

C17_Witness ==
  \E r \in RoomObjs :
    \E s1, s2 \in sessions[r] :
      s1 # s2 /\ sessUser[s1] = sessUser[s2] /\ userToken[sessUser[s1]] # NoToken

\* C18: a Join that creates a user sends SessionEvent to the new session and
\* then broadcasts one UsersUpdated to every session of the room, the new one
\* included; a Join that reuses a user sends SessionEvent and one UsersUpdated
\* to the new session only and changes no other queue.
C18_JoinStep ==
  \A t \in Threads :
    (pc[t] = "Join_lockRoom" /\ pc'[t] # "Join_lockRoom") =>
      LET r == loc[t].room
          s == loc[t].sess
          reused == \E f \in sessions[r] : userToken[sessUser[f]] = loc[t].tok
      IN /\ loc'[t].ev.type = "users"
         /\ \A s2 \in SessionIds \ {s} : events'[s2] = events[s2]
         /\ IF reused
            THEN /\ events'[s] = <<SessionEvent(s), loc'[t].ev>>
                 /\ pc'[t] = "Join_ret"
                 /\ loc'[t].pend = {}
            ELSE /\ events'[s] = <<SessionEvent(s)>>
                 /\ pc'[t] = "bcast"
                 /\ loc'[t].pend = sessions[r] \cup {s}
C18_JoinBroadcastStep ==
  \A t \in Threads :
    (pc[t] = "bcast" /\ loc[t].next = "Join_ret" /\ loc'[t] # loc[t]) =>
      /\ loc'[t].pend \subseteq loc[t].pend
      /\ Cardinality(loc[t].pend \ loc'[t].pend) <= 1
      /\ \A s \in loc[t].pend \ loc'[t].pend : events'[s] = Append(events[s], loc[t].ev)
      /\ pc'[t] = "Join_ret" <=> loc'[t].pend = {}
C18_JoinNotifies == [][C18_JoinStep /\ C18_JoinBroadcastStep]_vars

C18_Witness ==
  \E t \in Threads :
    /\ pc[t] = "Join_ret" /\ loc[t].pend = {}
    /\ events[loc[t].sess] = <<SessionEvent(loc[t].sess), loc[t].ev>>
    /\ \E s2 \in sessions[loc[t].room] \ {loc[t].sess} : sessUser[s2] = loc[t].user

\* C19: RemoveSession stops the user's stream and broadcasts UsersUpdated only
\* when the removed session was the last one of its user in the room.  While
\* another session of the user remains, the user's slot and ingress peer
\* connection are unchanged, no event is enqueued, and of the user's viewers
\* only the one of the removed session itself is closed and dropped; when no
\* session of the user remains, the slot is empty afterwards and every
\* remaining session is sent UsersUpdated without that user.
C19_RemainsStep(t, viewersAfter) ==
  LET r == loc[t].room
      s == loc[t].sess
      u == loc[t].user
      st == stream[u]
  IN /\ stream'[u] = st
     /\ inPc' = inPc
     /\ st # 0 => viewers'[st] = viewersAfter
     /\ events' = events
     /\ loc'[t].pend = {}
     /\ pc'[t] = "Rm_ret"
C19_GoneStep(t) ==
  LET r == loc[t].room
      u == loc[t].user
      ss == sessions[r] \ {loc[t].sess}
      ev == loc'[t].ev
  IN /\ stream'[u] = 0
     /\ stream[u] # 0 => inPc'[stream[u]] = "closed"
     /\ loc'[t].pend = ss
     /\ ev.type = "users"
     /\ \A m \in ev.users : m.id # u
     /\ ss = {} => pc'[t] = "Rm_afterStop"
C19_BroadcastStep ==
  \A t \in Threads :
    /\ (pc[t] = "bcast" /\ loc[t].next \in {"Rm_afterStop", "Rm_ret"} /\ loc'[t] # loc[t]) =>
         /\ loc'[t].pend \subseteq loc[t].pend
         /\ \A s \in loc[t].pend \ loc'[t].pend : events'[s] = Append(events[s], loc[t].ev)
         /\ \A m \in loc[t].ev.users : m.id # loc[t].user
    /\ (pc[t] = "Rm_ret" /\ pc'[t] # "Rm_ret") => events' = events
C19_RmStep ==
  \A t \in Threads :
    (pc[t] = "Rm_lockRoom" /\ pc'[t] # "Rm_lockRoom") =>
      LET s == loc[t].sess
          u == loc[t].user
          ss == sessions[loc[t].room] \ {s}
          st == stream[u]
      IN /\ sessions'[loc[t].room] = ss
         /\ IF \E s2 \in ss : sessUser[s2] = u
            THEN /\ C19_RemainsStep(t, [viewers[st] EXCEPT ![s] = 0])
                 /\ \A w \in WhepIds :
                      vPc'[w] = IF st # 0 /\ w = viewers[st][s] THEN "closed" ELSE vPc[w]
            ELSE C19_GoneStep(t)
C19_LastSessionStops == [][C19_RmStep /\ C19_BroadcastStep]_vars

\* C19 as stated: with another session of the user remaining, the viewers of
\* the user's stream are unchanged
C19_RmStepAsStated ==
  \A t \in Threads :
    (pc[t] = "Rm_lockRoom" /\ pc'[t] # "Rm_lockRoom") =>
      LET u == loc[t].user
          ss == sessions[loc[t].room] \ {loc[t].sess}
      IN IF \E s2 \in ss : sessUser[s2] = u
         THEN C19_RemainsStep(t, viewers[stream[u]])
         ELSE C19_GoneStep(t)
C19_ViewersUnchanged == [][C19_RmStepAsStated /\ C19_BroadcastStep]_vars

C19_Witness ==
  \E t \in Threads, s2 \in SessionIds, w \in WhepIds :
    LET u == loc[t].user
    IN /\ pc[t] = "Rm_ret" /\ loc[t].pend = {}
       /\ s2 \in sessions[loc[t].room] /\ sessUser[s2] = u
       /\ stream[u] # 0 /\ inPc[stream[u]] = "open"
       /\ vStream[w] = stream[u] /\ vSess[w] = loc[t].sess /\ vPc[w] = "closed"
       /\ viewers[stream[u]][loc[t].sess] = 0

\* C20: a WHEP against a streamer that is in the room but whose slot is empty
\* returns the "user is not streaming" error: it creates no peer connection,
\* inserts no viewer session in any viewer map and does not panic.
C20_EmptySlotStep ==
  \A t \in Threads :
    (/\ pc[t] = "WHEP_lockRoom" /\ pc'[t] # "WHEP_lockRoom"
     /\ RoomHasUser(sessions[loc[t].room], sessUser, loc[t].user)
     /\ stream[loc[t].user] = 0) =>
      /\ ret'[t].op = "WHEP"
      /\ ret'[t].err = "user is not streaming"
      /\ vPc' = vPc
      /\ viewers' = viewers
C20_NotStreaming == [][C20_EmptySlotStep]_vars

\* C21: a WHIP that returns an error after creating its peer connection
\* ("already streaming" or a failed negotiation) has closed that peer
\* connection and leaves no stream of its own in the user's slot; a WHEP that
\* returns an error after creating its peer connection has closed it.
C21_WhipFailureStep ==
  \A t \in Threads :
    (/\ pc[t] \in {"WHIP_lockRoom", "WHIP_negotiate"}
     /\ pc'[t] = "done"
     /\ ret'[t].err # "nil") =>
      /\ inPc'[loc[t].strm] = "closed"
      /\ stream'[loc[t].user] # loc[t].strm
C21_WhepFailureStep ==
  \A t \in Threads :
    (/\ pc[t] = "WHEP_lockRoom"
     /\ pc'[t] = "done"
     /\ stream[loc[t].user] # 0
     /\ ret'[t].err # "nil") =>
      \A w \in WhepIds : vPc[w] = "none" => vPc'[w] \in {"none", "closed"}
C21_FailureCloses == [][C21_WhipFailureStep /\ C21_WhepFailureStep]_vars

\* C22: the layer latch is atomic: when the forwarders of two layers deliver
\* their first packets to a viewer whose layer is empty, one layer becomes the
\* viewer's layer and every packet written to the viewer's track is of that
\* layer.
C22_AtomicLatch ==
  \A w \in WhepIds :
    \A i \in 1..Len(written[w]) :
      /\ written[w][i].layer = written[w][1].layer
      /\ whep[w].layer = written[w][i].layer

\* C23: in every reachable state, a user whose slot holds a stream has at
\* least one session in a room.
C23_StreamerInRoom ==
  \A u \in UserIds :
    stream[u] # 0 => \E r \in RoomObjs : RoomHasUser(sessions[r], sessUser, u)

\* C24: in every reachable state, every key of a stream's viewer map is the id
\* of a session that is a member of its room.
C24_ViewerIsMember ==
  \A st \in StreamIds :
    \A s \in SessionIds :
      viewers[st][s] # 0 => s \in sessions[sessRoom[s]]

\* C25: the ICE Closed callback of an ingress peer connection stops only the
\* stream that owns that peer connection: when the user's slot holds another
\* stream (started by a later WHIP), the callback leaves that stream in the
\* slot with its peer connection and its viewers as they were.
C25_StaleClosedStep ==
  \A t \in Threads :
    (pc[t] = "Ice_lockRoom" /\ pc'[t] # "Ice_lockRoom") =>
      LET u == loc[t].user
          cur == stream[u]
      IN (cur # 0 /\ cur # loc[t].strm) =>
           /\ stream'[u] = cur
           /\ inPc'[cur] = inPc[cur]
           /\ viewers'[cur] = viewers[cur]
C25_ClosedStopsOwnStream == [][C25_StaleClosedStep]_vars

\* C26: when a session that already has a viewer session on a stream calls
\* WHEP on it again, the new viewer session replaces the old one in the viewer
\* map and the old peer connection is closed; the ICE Closed callback of a
\* viewer peer connection that is no longer in the viewer map neither removes
\* nor closes the viewer session that replaced it.
C26_ReplaceStep ==
  \A t \in Threads :
    (pc[t] = "WHEP_lockRoom" /\ pc'[t] = "done" /\ ret'[t].err = "nil") =>
      LET st == stream[loc[t].user]
          old == viewers[st][loc[t].sess]
          new == viewers'[st][loc[t].sess]
      IN old # 0 =>
           /\ new \notin {0, old}
           /\ vPc'[new] = "open"
           /\ vPc'[old] = "closed"
C26_StaleClosedStep ==
  \A w \in WhepIds :
    (vCb[w] /\ ~vCb'[w]) =>
      LET cur == viewers[vStream[w]][vSess[w]]
      IN (cur # 0 /\ cur # w) =>
           /\ viewers'[vStream[w]][vSess[w]] = cur
           /\ vPc'[cur] = vPc[cur]
C26_ClosedRemovesOwnViewer == [][C26_ReplaceStep /\ C26_StaleClosedStep]_vars

\* C27: a viewer session is inserted only into the stream that is in its
\* user's slot, and whenever the room's lock is free a stream that stopStream
\* has swapped out has an empty viewer map.
C27_InsertStep ==
  \A t \in Threads :
    (pc[t] = "WHEP_lockRoom" /\ pc'[t] = "done") =>
      \A st \in StreamIds :
        viewers'[st] # viewers[st] => (st = stream[loc[t].user] /\ st = stream'[loc[t].user])
C27_StoppedStreamEmpty ==
  \A st \in StreamIds :
    (/\ stopCount[st] > 0
     /\ inRoom[st] # 0
     /\ roomLock[inRoom[st]] = 0) =>
      /\ \A u \in UserIds : stream[u] # st
      /\ \A s \in SessionIds : viewers[st][s] = 0
C27_InsertedInSlot == [][C27_InsertStep]_vars /\ []C27_StoppedStreamEmpty

C27_Witness ==
  \E st \in StreamIds, w \in WhepIds, t \in Threads :
    /\ stopCount[st] > 0 /\ roomLock[inRoom[st]] = 0
    /\ vStream[w] = st /\ vPc[w] = "closed"
    /\ ret[t].op = "WHEP" /\ ret[t].err = "nil" /\ pc[t] = "done"

\* C28: no event is enqueued on an event queue that has been closed, and no
\* event queue is closed twice.
C28_EnqueueStep ==
  \A s \in SessionIds :
    /\ Len(events'[s]) > Len(events[s]) => (closed[s] = 0 /\ closed'[s] = 0)
    /\ closed'[s] # closed[s] => (closed[s] = 0 /\ closed'[s] = 1)
C28_ClosedOnce == \A s \in SessionIds : closed[s] <= 1
C28_NoSendOnClosed == [][C28_EnqueueStep]_vars /\ []C28_ClosedOnce

C28_Witness ==
  \E t \in Threads, s1, s2 \in SessionIds :
    /\ pc[t] = "Close_sess" /\ loc[t].sess = s2
    /\ s1 # s2 /\ sessRoom[s1] = sessRoom[s2]
    /\ closed[s1] = 1 /\ closed[s2] = 0
    /\ events[s2] # <<>> /\ events[s2][Len(events[s2])] = loc[t].ev

\* C29: whenever a room's lock is free, the last UsersUpdated event enqueued
\* for each session of the room lists exactly the users that have a session in
\* the room, each with streaming = TRUE exactly when its slot holds a stream.
C29_LastUsersUpdated(q) ==
  LET idx == { i \in 1..Len(q) : q[i].type = "users" }
  IN IF idx = {} THEN NoEvent ELSE q[CHOOSE i \in idx : \A j \in idx : j <= i]
C29_LastEventCurrent ==
  \A r \in RoomObjs :
    roomLock[r] = 0 =>
      \A s \in sessions[r] :
        LET last == C29_LastUsersUpdated(events[s])
        IN /\ last.type = "users"
           /\ last.users = { [id |-> u, streaming |-> stream[u] # 0] :
                               u \in { sessUser[x] : x \in sessions[r] } }

C29_Witness ==
  \E r \in RoomObjs, s \in SessionIds, gone \in SessionIds, u \in UserIds :
    /\ roomLock[r] = 0 /\ s \in sessions[r]
    /\ sessRoom[gone] = r /\ sessState[gone] = "removed" /\ sessUser[gone] # u
    /\ stream[u] # 0
    /\ C29_LastUsersUpdated(events[s]).users = {[id |-> u, streaming |-> TRUE]}
    /\ Len(events[s]) >= 4

\* C30: every read or write of a room's session map is made by a thread that
\* holds the room's lock: the lookups of findUserByAuth (WHIP, FinishWHIP) and
\* FindSession (WHEP), which range over the session map of every room of the
\* registry, hold the lock of each room they read while a RemoveSession on
\* that room is in flight.
C30_LookupStep ==
  \A t \in Threads :
    (pc[t] \in {"WHIP_lockRegistry", "Fin_lockRegistry", "WHEP_find"} /\ pc'[t] # pc[t]) =>
      \A rid \in RoomIds :
        LET r == roomMap[rid]
        IN (/\ r # 0
            /\ \E t2 \in Threads \ {t} :
                 /\ loc[t2].room = r
                 /\ pc[t2] \in {"Rm_lockRoom", "Rm_afterStop", "Rm_ret"})
           => roomLock[r] = t
C30_WriteStep ==
  \A r \in RoomObjs :
    sessions'[r] # sessions[r] => \E t \in Threads : roomLock'[r] = t /\ pc'[t] # pc[t]
C30_SessionsUnderLock == [][C30_LookupStep /\ C30_WriteStep]_vars

\* C31: in the video forwarder, timeDiff is 0 for the first packet read from
\* a track and the packet's timestamp minus the previous packet's timestamp,
\* modulo 2^32, for every later packet, also after a packet of timestamp 0.
C31_ReadStep ==
  \A f \in Layers :
    (fwd[f].pc = "read" /\ fwd'[f].n # fwd[f].n) =>
      fwd'[f].diff = IF fwd[f].n = 0 THEN Zero32 ELSE Sub32(fwd'[f].ts, fwd[f].last)
C31_TimeDiff == [][C31_ReadStep]_vars

\* C32: a viewer's rewritten timestamp starts at 50000 and after each
\* forwarded packet it is its previous value plus that packet's timeDiff,
\* modulo 2^32: every packet written to the viewer's track carries the
\* timestamp of the packet written before it plus its own timeDiff, and the
\* viewer's timestamp is the one of the last packet written.
C32_NewViewerStep ==
  \A w \in WhepIds :
    (vPc[w] = "none" /\ vPc'[w] # "none") => whep'[w].ts = U32(WhepStartTimestamp)
C32_WriteStep ==
  \A w \in WhepIds :
    Len(written'[w]) > Len(written[w]) =>
      LET n == Len(written'[w])
          prev == IF n = 1 THEN written'[w][n].ts ELSE written[w][n - 1].ts
      IN /\ n > 1 => written'[w][n].ts = Add32(prev, written'[w][n].diff)
         /\ whep'[w].ts = written'[w][n].ts
C32_TimestampAdvances == [][C32_NewViewerStep /\ C32_WriteStep]_vars

\* C33: after a stream is stopped and its ingress peer connection closed,
\* every goroutine started for it exits.  Once the videoWriters and the
\* viewers' RTCP readers have returned and the PLI channel is empty, nothing
\* can wake a PLI forwarder any more: by then it has returned too.
C33_WorkersExit ==
  (/\ stopCount[FwdStream] > 0
   /\ inPc[FwdStream] = "closed"
   /\ \A f \in Layers : fwd[f].pc \in {"off", "exited"}
   /\ \A w \in WhepIds : workers.rtcp[w] # "run"
   /\ pliChan[FwdStream] = 0)
  => \A f \in Layers : workers.pli[f] # "run"
====
